---- MODULE Spec2Model ----
(***************************************************************************)
(* Stop-and-wait transfer of a byte stream between tx.py (Sender) and      *)
(* rx.py (Receiver) over two datagram channels (Data, Ack).                *)
(*                                                                         *)
(* Bytes are integers 0..255; a datagram is a sequence of bytes.  A        *)
(* message in a channel is a record [b |-> bytes, chunk |-> k] where       *)
(* chunk is a history tag (never read by the endpoints): the index of the  *)
(* chunk the Data datagram carries, or of the Data datagram an Ack         *)
(* answers (NoChunk for the answer to a malformed datagram).               *)
(***************************************************************************)
EXTENDS Integers, Sequences, FiniteSets, TLC

(* ------------------------------------------------------------------ *)
(* Program constants                                                   *)
(* ------------------------------------------------------------------ *)
DATA_PCK_LEN == 32
DATA_BYTES == 31
ACK_LEN == 2
FIRST_DATA_LEN == 27
LEN_FIELD == 4
STATUS_OK == 0
STATUS_DUPLICATE == 1
STATUS_BAD_LENGTH == 2
None == -1
\* RTT_TIMEOUT_MS, the socket's timeout: the unit of the model's clock
RTT_TIMEOUT == 1

(* ------------------------------------------------------------------ *)
(* Bounds of the model                                                 *)
(* ------------------------------------------------------------------ *)
\* largest number of chunks of an input stream
MaxChunks == 3
\* largest configured retry budget (--retries)
MaxRetries == 2
\* datagrams a channel holds (in the network and in the socket's receive
\* buffer); one transmitted into a full channel is lost
ChanCap == 2
\* datagrams of a third party (wrong length) either endpoint may receive
MaxNoise == 1

NoChunk == 0 - 1

Min(a, b) == IF a <= b THEN a ELSE b
Max(a, b) == IF a >= b THEN a ELSE b

(* ------------------------------------------------------------------ *)
(* bytes helpers: slicing, padding, struct.pack / struct.unpack        *)
(* ------------------------------------------------------------------ *)
\* s[a:b] of Python for 0 <= a, 0 <= b (clamped to the length of s)
Slice(s, a, b) == SubSeq(s, a + 1, Min(b, Len(s)))

\* s[a:] of Python
SliceFrom(s, a) == SubSeq(s, a + 1, Len(s))

\* s.ljust(n, b"\x00")
Ljust(s, n) == IF Len(s) >= n THEN s ELSE s \o [i \in 1..(n - Len(s)) |-> 0]

\* struct.pack("<I", n)
PackLE32(n) ==
    << n % 256, (n \div 256) % 256, (n \div 65536) % 256, (n \div 16777216) % 256 >>

\* struct.unpack("<I", b)[0]
UnpackLE32(b) == b[1] + 256 * b[2] + 65536 * b[3] + 16777216 * b[4]

\* make_packet: one sequence-number byte, then the 31 data bytes
make_packet(pck_num, data) == << pck_num % 256 >> \o data

\* the chunks data_for_file yields after the first, from offset on
\* (a variant that goes on while offset <= total_len)
RECURSIVE RestChunksInclusive(_, _)
RestChunksInclusive(bytes, offset) ==
    IF offset <= Len(bytes)
    THEN << Ljust(Slice(bytes, offset, offset + DATA_BYTES), DATA_BYTES) >>
         \o RestChunksInclusive(bytes, offset + DATA_BYTES)
    ELSE << >>

RECURSIVE RestChunks(_, _)
RestChunks(bytes, offset) ==
    IF offset < Len(bytes)
    THEN << Ljust(Slice(bytes, offset, offset + DATA_BYTES), DATA_BYTES) >>
         \o RestChunks(bytes, offset + DATA_BYTES)
    ELSE << >>

\* (a variant that goes on after the first chunk at offset 31, not 27)
data_for_file_offset31(bytes) ==
    << Ljust(PackLE32(Len(bytes)) \o Slice(bytes, 0, FIRST_DATA_LEN), DATA_BYTES) >>
    \o RestChunks(bytes, DATA_BYTES)

\* the sequence of chunks data_for_file yields for the stream bytes
data_for_file(bytes) ==
    << Ljust(PackLE32(Len(bytes)) \o Slice(bytes, 0, FIRST_DATA_LEN), DATA_BYTES) >>
    \o RestChunks(bytes, FIRST_DATA_LEN)

(* ------------------------------------------------------------------ *)
(* Inputs                                                              *)
(* ------------------------------------------------------------------ *)
\* stream lengths: empty, and for every chunk count 2..MaxChunks the length
\* that leaves one byte in the last chunk
Lengths == {0} \cup { FIRST_DATA_LEN + DATA_BYTES * (c - 2) + 1 : c \in 2..MaxChunks }

\* every stream length of at most MaxChunks chunks
AllLengths == 0..(FIRST_DATA_LEN + DATA_BYTES * (MaxChunks - 1))

\* the input file of length n: byte i is i mod 256 (every position distinct
\* below 256, and byte 0 is a zero that is data, not padding)
FileOfLen(n) == [i \in 1..n |-> (i - 1) % 256]

VARIABLES
    \* configuration (fixed by the command lines)
    input_len,         \* tx: the length of the input file
    max_retries,       \* tx: MAX_RETRIES
    loss_data,         \* tx: LOSS_DATA_PROB, in halves
    loss_ack,          \* rx: LOSS_ACK_PROB, in halves
    ordered,           \* whether each channel delivers in the order sent
    \* channels
    dataChan,          \* Data datagrams transmitted and not yet received
    ackChan,           \* Ack datagrams transmitted and not yet received
    noise,             \* third-party datagrams received so far
    \* Sender
    txpc,              \* "send" (head of the attempt loop), "wait", "done"
    chunkIdx,          \* index of the chunk main's for loop holds
    pck_num,
    pck,
    attempt,
    sent_data_chunks,
    success_data_chunks,
    recvElapsed,       \* ticks since the current recvfrom call began
    waitElapsed,       \* ticks since wait_for_ack was entered
    \* Receiver
    rxpc,              \* "recv", "exited" (break), "crashed" (exception)
    last_delivered_pck_num,
    expected_total_len,
    bytes_written,
    done,
    out_f,             \* the bytes written to the output file
    out_open,          \* whether out_f is still open
    \* history
    attempts,          \* attempts made for the current chunk (suppressed ones too)
    transmitted,       \* the chunks a Data datagram was transmitted for
    accepted           \* per chunk, how often the Receiver took it as new

vars == << input_len, max_retries, loss_data, loss_ack, ordered, dataChan, ackChan,
           noise, txpc, chunkIdx, pck_num, pck, attempt, sent_data_chunks,
           success_data_chunks, recvElapsed, waitElapsed, rxpc,
           last_delivered_pck_num, expected_total_len, bytes_written, done,
           out_f, out_open, attempts, transmitted, accepted >>

cfgVars == << input_len, max_retries, loss_data, loss_ack, ordered >>
txVars == << txpc, chunkIdx, pck_num, pck, attempt, sent_data_chunks,
             success_data_chunks, recvElapsed, waitElapsed, attempts,
             transmitted >>
rxVars == << rxpc, last_delivered_pck_num, expected_total_len, bytes_written,
             done, out_f, out_open, accepted >>

\* the bytes of the input file
data_r == FileOfLen(input_len)

\* the chunks of the input file, and their number
Chunks == data_for_file(data_r)
NumChunks == Len(Chunks)

(* ------------------------------------------------------------------ *)
(* Channels                                                            *)
(* ------------------------------------------------------------------ *)
\* s without its i-th element
RemoveAt(s, i) == SubSeq(s, 1, i - 1) \o SubSeq(s, i + 1, Len(s))

\* The channel after the endpoint received its i-th datagram.  A datagram
\* that is never received is lost.  A channel that keeps the order loses the
\* datagrams sent before the one received; one that does not may still
\* deliver them later.
AfterDelivery(chan, i) ==
    IF ordered THEN SubSeq(chan, i + 1, Len(chan)) ELSE RemoveAt(chan, i)

\* A number that orders the datagrams of one channel (tag, length, first
\* two bytes): two datagrams of a run with the same number are equal.
Key(m) ==
    (((m.chunk + 1) * 64 + Len(m.b)) * 256
        + (IF Len(m.b) >= 1 THEN m.b[1] ELSE 0)) * 256
        + (IF Len(m.b) >= 2 THEN m.b[2] ELSE 0)

\* m put into the sequence chan at its place by Key
RECURSIVE Insert(_, _)
Insert(chan, m) ==
    IF chan = << >> THEN << m >>
    ELSE IF Key(m) <= Key(Head(chan)) THEN << m >> \o chan
    ELSE << Head(chan) >> \o Insert(Tail(chan), m)

\* The channel after the datagram m was transmitted into it.  A channel that
\* keeps the order is a queue; of one that does not, only the datagrams it
\* holds matter, and they are kept sorted.
Transmit(chan, m) ==
    IF Len(chan) >= ChanCap THEN chan
    ELSE IF ordered THEN Append(chan, m)
    ELSE Insert(chan, m)

\* random.random(), in halves: 0 stands for [0, 1/2), 1 for [1/2, 1)
Draws == {0, 1}

\* the loss probabilities of the two directions, in halves: no loss, loss of
\* about every second message in both directions, every Data lost, every Ack lost
LossConfigs == { << 0, 0 >>, << 1, 1 >>, << 2, 0 >>, << 0, 2 >> }

\* (a variant that also suppresses on a draw equal to the probability)
SuppressedOnEqual(r, prob) == r <= prob

\* the channel loss policy: random.random() < probability
Suppressed(r, prob) == r < prob

\* (a variant that leaves the number as it is)
FlipBitStuck(n) == n

\* pck_num ^= 1
FlipBit(n) == IF n % 2 = 0 THEN n + 1 ELSE n - 1

(* ------------------------------------------------------------------ *)
(* Initial state: both processes started, sockets bound, file open     *)
(* ------------------------------------------------------------------ *)
\* the command lines: --retries, --loss-data, --loss-ack; and the network
Configured ==
    /\ max_retries \in 1..MaxRetries
    /\ \E c \in LossConfigs : loss_data = c[1] /\ loss_ack = c[2]
    /\ ordered \in BOOLEAN

\* both processes before their loops
Started ==
    /\ dataChan = << >>
    /\ ackChan = << >>
    /\ noise = 0
    /\ txpc = "send"
    /\ chunkIdx = 0
    /\ pck_num = 0
    /\ pck = make_packet(0, data_for_file(FileOfLen(input_len))[1])
    /\ attempt = 1
    /\ sent_data_chunks = 0
    /\ success_data_chunks = 0
    /\ recvElapsed = 0
    /\ waitElapsed = 0
    /\ rxpc = "recv"
    /\ last_delivered_pck_num = None
    /\ expected_total_len = None
    /\ bytes_written = 0
    /\ done = FALSE
    /\ out_f = << >>
    /\ out_open = TRUE
    /\ attempts = 0
    /\ transmitted = {}
    /\ accepted = [k \in 0..(MaxChunks - 1) |-> 0]

Init ==
    /\ input_len \in Lengths
    /\ Configured
    /\ Started

(* ------------------------------------------------------------------ *)
(* Sender                                                              *)
(* ------------------------------------------------------------------ *)
\* (a variant whose loop runs once more)
HasAttemptOneMore(a) == a <= max_retries + 1

\* the for loop of send_with_retries has another attempt to make
HasAttempt(a) == a <= max_retries

\* one attempt: the loss decision, the transmission, entering wait_for_ack
TxAttempt(r) ==
    /\ txpc = "send"
    /\ HasAttempt(attempt)
    /\ attempts' = attempts + 1
    /\ IF Suppressed(r, loss_data)
       THEN UNCHANGED << dataChan, transmitted >>
       ELSE /\ dataChan' = Transmit(dataChan, [b |-> pck, chunk |-> chunkIdx])
            /\ transmitted' = transmitted \cup {chunkIdx}
    /\ txpc' = "wait"
    /\ recvElapsed' = 0
    /\ waitElapsed' = 0
    /\ UNCHANGED << chunkIdx, pck_num, pck, attempt, sent_data_chunks,
                    success_data_chunks >>
    /\ UNCHANGED << cfgVars, ackChan, noise, rxVars >>

\* time passes while the Sender blocks in recvfrom
Tick ==
    /\ txpc = "wait"
    /\ recvElapsed < RTT_TIMEOUT
    /\ recvElapsed' = recvElapsed + 1
    /\ waitElapsed' = Min(waitElapsed + 1, RTT_TIMEOUT + 1)
    /\ UNCHANGED << txpc, chunkIdx, pck_num, pck, attempt, sent_data_chunks,
                    success_data_chunks, attempts, transmitted >>
    /\ UNCHANGED << cfgVars, dataChan, ackChan, noise, rxVars >>

\* (a variant that goes on with the next chunk after a failed attempt)
AttemptFailedSkipsChunk ==
    /\ attempt' = 1
    /\ txpc' = "send"
    /\ recvElapsed' = 0
    /\ waitElapsed' = 0
    /\ attempts' = 0
    /\ IF chunkIdx + 1 < NumChunks
       THEN /\ chunkIdx' = chunkIdx + 1
            /\ pck_num' = FlipBit(pck_num)
            /\ pck' = make_packet(FlipBit(pck_num), Chunks[chunkIdx + 2])
       ELSE UNCHANGED << chunkIdx, pck_num, pck >>
    /\ UNCHANGED << sent_data_chunks, success_data_chunks, transmitted >>

\* the attempt failed (timeout, or a status that is no success): the loop
\* of send_with_retries goes on
AttemptFailed ==
    /\ attempt' = attempt + 1
    /\ txpc' = "send"
    /\ recvElapsed' = 0
    /\ waitElapsed' = 0
    /\ UNCHANGED << chunkIdx, pck_num, pck, sent_data_chunks, success_data_chunks,
                    attempts, transmitted >>

\* (a variant that does not count a confirmed chunk as sent)
ChunkConfirmedNotSent ==
    /\ UNCHANGED sent_data_chunks
    /\ success_data_chunks' = success_data_chunks + 1
    /\ pck_num' = FlipBit(pck_num)
    /\ chunkIdx' = chunkIdx + 1
    /\ recvElapsed' = 0
    /\ waitElapsed' = 0
    /\ attempts' = 0
    /\ UNCHANGED transmitted
    /\ IF chunkIdx + 1 < NumChunks
       THEN /\ pck' = make_packet(FlipBit(pck_num), Chunks[chunkIdx + 2])
            /\ attempt' = 1
            /\ txpc' = "send"
       ELSE /\ txpc' = "done"
            /\ UNCHANGED << pck, attempt >>

\* send_with_retries returned True: main counts the chunk, flips the bit and
\* takes the next chunk from data_for_file, or leaves the loop after the last
ChunkConfirmed ==
    /\ sent_data_chunks' = sent_data_chunks + 1
    /\ success_data_chunks' = success_data_chunks + 1
    /\ pck_num' = FlipBit(pck_num)
    /\ chunkIdx' = chunkIdx + 1
    /\ recvElapsed' = 0
    /\ waitElapsed' = 0
    /\ attempts' = 0
    /\ UNCHANGED transmitted
    /\ IF chunkIdx + 1 < NumChunks
       THEN /\ pck' = make_packet(FlipBit(pck_num), Chunks[chunkIdx + 2])
            /\ attempt' = 1
            /\ txpc' = "send"
       ELSE /\ txpc' = "done"
            /\ UNCHANGED << pck, attempt >>

\* recvfrom raised socket.timeout: wait_for_ack returns None
TxTimeout ==
    /\ txpc = "wait"
    /\ recvElapsed = RTT_TIMEOUT
    /\ AttemptFailed
    /\ UNCHANGED << cfgVars, dataChan, ackChan, noise, rxVars >>

\* (a variant that forgets to compare the packet number)
AckMatchesAnyNumber(ack, expected_pck_num) == Len(ack) = ACK_LEN

\* wait_for_ack keeps the datagram: it has the length and the number expected
AckMatches(ack, expected_pck_num) ==
    /\ Len(ack) = ACK_LEN
    /\ ack[1] = expected_pck_num % 256

\* (a variant that takes only status OK as a success)
IsSuccessOnlyOk(status) == status = STATUS_OK

\* the status ends the chunk's delivery as a success
IsSuccess(status) == status \in {STATUS_OK, STATUS_DUPLICATE}

\* (a variant that takes a datagram that is not the awaited Ack as a failure)
TxOutcomeNoDiscard(b, n) ==
    IF ~AckMatches(b, n) THEN "retry"
    ELSE IF IsSuccess(b[2]) THEN "confirm"
    ELSE "retry"

\* what wait_for_ack and send_with_retries make of the datagram b received
\* while waiting for the Ack of packet number n
TxOutcome(b, n) ==
    IF ~AckMatches(b, n) THEN "discard"
    ELSE IF IsSuccess(b[2]) THEN "confirm"
    ELSE "retry"

\* the Sender on the datagram b
TxHandle(b) ==
    IF TxOutcome(b, pck_num) = "discard"
    THEN \* continue: the next recvfrom call, with the socket's timeout anew
         /\ recvElapsed' = 0
         /\ UNCHANGED << txpc, chunkIdx, pck_num, pck, attempt, sent_data_chunks,
                         success_data_chunks, waitElapsed, attempts, transmitted >>
    ELSE IF TxOutcome(b, pck_num) = "confirm"
         THEN ChunkConfirmed
         ELSE AttemptFailed

\* recvfrom returned an Ack of the Receiver
TxRecv(i) ==
    /\ txpc = "wait"
    /\ i \in 1..Len(ackChan)
    /\ ackChan' = AfterDelivery(ackChan, i)
    /\ TxHandle(ackChan[i].b)
    /\ UNCHANGED << cfgVars, dataChan, noise, rxVars >>

\* datagrams of a wrong length a third party may send to the Ack port
AckNoise == { << >>, << 1, 0, 0 >> }

\* recvfrom returned a datagram that is no Ack of the Receiver
TxRecvNoise(d) ==
    /\ txpc = "wait"
    /\ noise < MaxNoise
    /\ noise' = noise + 1
    /\ TxHandle(d)
    /\ UNCHANGED << cfgVars, dataChan, ackChan, rxVars >>

\* (a variant in which main does not break and takes the next chunk)
TxGiveUpNextChunk ==
    /\ txpc = "send"
    /\ ~HasAttempt(attempt)
    /\ sent_data_chunks' = sent_data_chunks + 1
    /\ IF chunkIdx + 1 < NumChunks
       THEN /\ chunkIdx' = chunkIdx + 1
            /\ pck_num' = FlipBit(pck_num)
            /\ pck' = make_packet(FlipBit(pck_num), Chunks[chunkIdx + 2])
            /\ attempt' = 1
            /\ attempts' = 0
            /\ txpc' = "send"
       ELSE /\ txpc' = "done"
            /\ UNCHANGED << chunkIdx, pck_num, pck, attempt, attempts >>
    /\ UNCHANGED << success_data_chunks, recvElapsed, waitElapsed, transmitted >>
    /\ UNCHANGED << cfgVars, dataChan, ackChan, noise, rxVars >>

\* the attempts are used up: send_with_retries returns False, main counts the
\* chunk as sent and breaks
TxGiveUp ==
    /\ txpc = "send"
    /\ ~HasAttempt(attempt)
    /\ sent_data_chunks' = sent_data_chunks + 1
    /\ txpc' = "done"
    /\ UNCHANGED << chunkIdx, pck_num, pck, attempt, success_data_chunks,
                    recvElapsed, waitElapsed, attempts, transmitted >>
    /\ UNCHANGED << cfgVars, dataChan, ackChan, noise, rxVars >>

(* ------------------------------------------------------------------ *)
(* Receiver                                                            *)
(* ------------------------------------------------------------------ *)
\* (a variant with the test inverted)
IsDuplicateInverted(last, n) == last # n

\* (a variant that detects no resend)
IsDuplicateNever(last, n) == FALSE

\* the packet number was accepted last: a resend
IsDuplicate(last, n) == last = n

\* (a variant that writes the padding too)
ToWriteAll(candidate, total, written) == candidate

\* (a variant that takes one byte more than is needed)
ToWriteOneMore(candidate, total, written) ==
    Slice(candidate, 0, Max(0, total - written) + 1)

\* the candidate bytes still needed: candidate[: max(0, total - written)]
ToWrite(candidate, total, written) == Slice(candidate, 0, Max(0, total - written))

\* (a variant that takes the length field of the first payload as data)
CandidateWithHeader(data, first) == data

\* the candidate stream bytes of an accepted payload
Candidate(data, first) == IF first THEN SliceFrom(data, LEN_FIELD) ELSE data

\* (a variant that asks for more bytes than the total)
IsCompleteStrict(total, written) == total # None /\ written > total

\* the file is complete
IsComplete(total, written) == total # None /\ written >= total

\* (a variant that leaves the loop when the Ack was dropped)
RxBreakOnDrop(d, ack_dropped) == d /\ ack_dropped

\* the receive loop is left
RxBreak(d, ack_dropped) == d /\ ~ack_dropped

\* (a variant that records the number of a datagram of a wrong length)
RxMalformedRecordsNumber(b, r) ==
    [ kind |-> "bad",
      last |-> (IF Len(b) >= 1 THEN b[1] ELSE 0), total |-> expected_total_len,
      written |-> bytes_written, done |-> done, out |-> out_f, open |-> out_open,
      ack |-> << (IF Len(b) >= 1 THEN b[1] ELSE 0) % 256, STATUS_BAD_LENGTH >>,
      sent |-> ~Suppressed(r, loss_ack),
      pc |-> "recv" ]

\* a datagram of a length other than 32 bytes: nothing but the reply
RxMalformed(b, r) ==
    [ kind |-> "bad",
      last |-> last_delivered_pck_num, total |-> expected_total_len,
      written |-> bytes_written, done |-> done, out |-> out_f, open |-> out_open,
      ack |-> << (IF Len(b) >= 1 THEN b[1] ELSE 0) % 256, STATUS_BAD_LENGTH >>,
      sent |-> ~Suppressed(r, loss_ack),
      pc |-> "recv" ]

\* (a variant that answers a resend with status OK)
RxDuplicateAnswersOk(b, r) ==
    [ kind |-> "dup",
      last |-> last_delivered_pck_num, total |-> expected_total_len,
      written |-> bytes_written, done |-> done, out |-> out_f, open |-> out_open,
      ack |-> << b[1] % 256, STATUS_OK >>,
      sent |-> ~Suppressed(r, loss_ack),
      pc |-> IF done /\ ~Suppressed(r, loss_ack) THEN "exited" ELSE "recv" ]

\* a 32-byte datagram whose number is the last delivered one
RxDuplicate(b, r) ==
    [ kind |-> "dup",
      last |-> last_delivered_pck_num, total |-> expected_total_len,
      written |-> bytes_written, done |-> done, out |-> out_f, open |-> out_open,
      ack |-> << b[1] % 256, STATUS_DUPLICATE >>,
      sent |-> ~Suppressed(r, loss_ack),
      pc |-> IF RxBreak(done, Suppressed(r, loss_ack)) THEN "exited" ELSE "recv" ]

\* a 32-byte datagram with another number: new data
RxNew(b, r) ==
    LET data == SliceFrom(b, 1)
        first == expected_total_len = None
        total == IF first THEN UnpackLE32(Slice(data, 0, LEN_FIELD))
                 ELSE expected_total_len
        to_write == ToWrite(Candidate(data, first), total, bytes_written)
        written == bytes_written + Len(to_write)
    IN  IF ~out_open
        THEN \* out_f.write on the closed file raises ValueError
             [ kind |-> "crash",
               last |-> b[1], total |-> total,
               written |-> bytes_written, done |-> done, out |-> out_f,
               open |-> out_open,
               ack |-> << >>, sent |-> FALSE,
               pc |-> "crashed" ]
        ELSE [ kind |-> "new",
               last |-> b[1], total |-> total,
               written |-> written, done |-> IsComplete(total, written),
               out |-> out_f \o to_write,
               open |-> ~IsComplete(total, written),
               ack |-> << b[1] % 256, STATUS_OK >>,
               sent |-> ~Suppressed(r, loss_ack),
               pc |-> IF RxBreak(IsComplete(total, written), Suppressed(r, loss_ack))
                      THEN "exited" ELSE "recv" ]

\* One pass of the receive loop on the datagram b with the draw r: the
\* Receiver's state after it, the Ack built and whether it is sent.
RxOutcome(b, r) ==
    IF Len(b) # DATA_PCK_LEN THEN RxMalformed(b, r)
    ELSE IF IsDuplicate(last_delivered_pck_num, b[1]) THEN RxDuplicate(b, r)
    ELSE RxNew(b, r)

\* the Receiver on the datagram m
RxHandle(m, r) ==
    LET o == RxOutcome(m.b, r)
    IN  /\ last_delivered_pck_num' = o.last
        /\ expected_total_len' = o.total
        /\ bytes_written' = o.written
        /\ done' = o.done
        /\ out_f' = o.out
        /\ out_open' = o.open
        /\ rxpc' = o.pc
        /\ ackChan' = IF o.sent
                      THEN Transmit(ackChan, [b |-> o.ack, chunk |-> m.chunk])
                      ELSE ackChan
        /\ accepted' = IF o.kind = "new" /\ m.chunk # NoChunk
                       THEN [accepted EXCEPT ![m.chunk] = @ + 1]
                       ELSE accepted

\* recvfrom returned a Data datagram of the Sender
RxRecv(i, r) ==
    /\ rxpc = "recv"
    /\ i \in 1..Len(dataChan)
    /\ dataChan' = AfterDelivery(dataChan, i)
    /\ RxHandle(dataChan[i], r)
    /\ UNCHANGED << cfgVars, noise, txVars >>

\* datagrams of a wrong length a third party may send to the Data port
DataNoise == { << >>, << 1 >>, [i \in 1..(DATA_PCK_LEN + 1) |-> 0] }

\* recvfrom returned a datagram that is no Data packet of the Sender
RxRecvNoise(d, r) ==
    /\ rxpc = "recv"
    /\ noise < MaxNoise
    /\ noise' = noise + 1
    /\ RxHandle([b |-> d, chunk |-> NoChunk], r)
    /\ UNCHANGED << cfgVars, dataChan, txVars >>

(* ------------------------------------------------------------------ *)
(* Specifications                                                      *)
(* ------------------------------------------------------------------ *)
\* Sender and Receiver alone on the two channels
Next ==
    \/ \E r \in Draws : TxAttempt(r)
    \/ Tick
    \/ TxTimeout
    \/ \E i \in 1..Len(ackChan) : TxRecv(i)
    \/ TxGiveUp
    \/ \E i \in 1..Len(dataChan), r \in Draws : RxRecv(i, r)

Spec == Init /\ [][Next]_vars

\* Sender and Receiver on channels that keep the order, with third parties
\* sending datagrams of a wrong length to either port
InitNoise == Init /\ ordered

NextNoise ==
    \/ Next
    \/ \E d \in AckNoise : TxRecvNoise(d)
    \/ \E d \in DataNoise, r \in Draws : RxRecvNoise(d, r)

SpecNoise == InitNoise /\ [][NextNoise]_vars

\* Sender and Receiver of a stream of any length on a network that loses
\* and reorders nothing and whose delays (DATA_DELAY_MS_MAX, ACK_DELAY_MS_MAX)
\* are shorter than the timeout: recvfrom times out only when neither a
\* Data packet nor an Ack is on its way
InitTimely ==
    /\ input_len \in AllLengths
    /\ Configured
    /\ ordered
    /\ Started

TickTimely ==
    /\ dataChan = << >>
    /\ ackChan = << >>
    /\ Tick

NextTimely ==
    \/ \E r \in Draws : TxAttempt(r)
    \/ TickTimely
    \/ TxTimeout
    \/ TxRecv(1)
    \/ TxGiveUp
    \/ \E r \in Draws : RxRecv(1, r)

\* both processes run, time passes, and the head of a socket's buffer is read
FairnessTimely ==
    /\ WF_vars(\E r \in Draws : TxAttempt(r))
    /\ WF_vars(TickTimely)
    /\ WF_vars(TxTimeout)
    /\ WF_vars(TxGiveUp)
    /\ WF_vars(TxRecv(1))
    /\ WF_vars(\E r \in Draws : RxRecv(1, r))

SpecTimely == InitTimely /\ [][NextTimely]_vars /\ FairnessTimely

\* datagrams that are not the awaited Ack: of a wrong length, or with the
\* other number
StrayAcks == AckNoise \cup { << 1 - pck_num, STATUS_DUPLICATE >> }

\* recvfrom returned one datagram of a continuing stream of such datagrams
TxRecvStray(d) ==
    /\ txpc = "wait"
    /\ TxHandle(d)
    /\ UNCHANGED << cfgVars, dataChan, ackChan, noise, rxVars >>

NextStream ==
    \/ Next
    \/ \E d \in StrayAcks : TxRecvStray(d)

\* Both processes run: a step of a process that stays possible is taken,
\* time passes, and a datagram in a socket's buffer is read. Nothing is
\* assumed of the stream of stray datagrams.
Fairness ==
    /\ WF_vars(\E r \in Draws : TxAttempt(r))
    /\ WF_vars(Tick)
    /\ WF_vars(TxTimeout)
    /\ WF_vars(TxGiveUp)
    /\ WF_vars(\E i \in 1..Len(ackChan) : TxRecv(i))
    /\ WF_vars(\E i \in 1..Len(dataChan), r \in Draws : RxRecv(i, r))

\* Sender and Receiver with a continuing stream of stray datagrams at the
\* Ack port
SpecStream == Init /\ [][NextStream]_vars /\ Fairness

(* ------------------------------------------------------------------ *)
(* Properties                                                          *)
(* ------------------------------------------------------------------ *)
\* the Sender finished with every chunk confirmed
TxSucceeded == txpc = "done" /\ success_data_chunks = NumChunks

\* the Sender stopped because a chunk used up its attempts
TxFailed == txpc = "done" /\ success_data_chunks < NumChunks

\* the Receiver's state is what the outcome o says
RxUntouched(o) ==
    /\ o.last = last_delivered_pck_num
    /\ o.total = expected_total_len
    /\ o.written = bytes_written
    /\ o.out = out_f
    /\ o.done = done
    /\ o.open = out_open

\* C1: on channels that deliver in order, whenever the Sender finishes with
\* every chunk confirmed, the bytes the Receiver has written are exactly the
\* input bytes, in order (for every pattern of suppressed and late messages).
C1_RoundTrip ==
    (ordered /\ TxSucceeded) =>
        /\ out_f = data_r
        /\ bytes_written = input_len
        /\ expected_total_len = input_len

\* a successful in-order run of the longest input, with a retransmitted copy
\* of the last chunk still in flight
C1_Witness ==
    /\ ordered
    /\ TxSucceeded
    /\ NumChunks = MaxChunks
    /\ out_f = data_r
    /\ dataChan # << >>

\* C2 (as stated): in any run the Receiver accepts each chunk as new at most
\* once, however often the Sender retransmits it.
C2_AtMostOnce == \A k \in 0..(MaxChunks - 1) : accepted[k] <= 1

\* C2 (amended): on channels that deliver in order the Receiver accepts each
\* chunk as new at most once, however often it is retransmitted; and when the
\* loss policy suppresses every attempt the Receiver sees no event at all.
C2_AtMostOnceInOrder ==
    /\ ordered => C2_AtMostOnce
    /\ loss_data = 2 =>
          /\ \A k \in 0..(MaxChunks - 1) : accepted[k] = 0
          /\ last_delivered_pck_num = None
          /\ bytes_written = 0
          /\ ackChan = << >>

\* chunk 0 was attempted twice, accepted once, and its resend answered DUPLICATE
C2_Witness ==
    /\ ordered
    /\ chunkIdx = 0
    /\ attempts = 2
    /\ accepted[0] = 1
    /\ \E i \in 1..Len(ackChan) : ackChan[i].b[2] = STATUS_DUPLICATE

\* C3 (as stated): on a channel that may drop and reorder, the Sender never
\* takes as the acknowledgment of its current chunk an Ack the Receiver sent
\* in answer to a Data packet of an earlier chunk.
C3_NoStaleAck ==
    txpc = "wait" =>
        \A i \in 1..Len(ackChan) :
            TxOutcome(ackChan[i].b, pck_num) = "confirm"
                => ackChan[i].chunk = chunkIdx

\* C3 (amended): the same, on channels that may drop messages but deliver
\* each direction in order.
C3_NoStaleAckInOrder == ordered => C3_NoStaleAck

\* the Sender waits for the Ack of a later chunk while an Ack of an earlier
\* chunk is still to come, and discards it
C3_Witness ==
    /\ ordered
    /\ txpc = "wait"
    /\ chunkIdx >= 1
    /\ \E i \in 1..Len(ackChan) :
          /\ ackChan[i].chunk < chunkIdx
          /\ TxOutcome(ackChan[i].b, pck_num) = "discard"

\* the Data datagrams in flight the Receiver has already accepted as new
AcceptedInFlight ==
    { i \in 1..Len(dataChan) : accepted[dataChan[i].chunk] >= 1 }

\* delivering the datagram b again changes nothing and is answered DUPLICATE
Idempotent(b) ==
    \A r \in Draws :
        /\ RxUntouched(RxOutcome(b, r))
        /\ RxOutcome(b, r).ack = << b[1], STATUS_DUPLICATE >>

\* C4 (as stated): delivering again, at any later point, any Data packet the
\* Receiver has already accepted (the last one or an earlier one) changes
\* neither bytes_written, the output, the total length nor the last-delivered
\* number, and the Ack built has status DUPLICATE.
C4_DuplicateIdempotence ==
    rxpc = "recv" =>
        \A i \in AcceptedInFlight : Idempotent(dataChan[i].b)

\* C4 (amended): the same for an accepted Data packet whose sequence number
\* is the one delivered last (the most recently accepted packet is one).
C4_DuplicateIdempotenceSameNumber ==
    rxpc = "recv" =>
        \A i \in AcceptedInFlight :
            dataChan[i].b[1] = last_delivered_pck_num
                => Idempotent(dataChan[i].b)

\* a copy of a packet already accepted and written is about to be delivered
C4_Witness ==
    /\ rxpc = "recv"
    /\ bytes_written > 0
    /\ \E i \in AcceptedInFlight : dataChan[i].b[1] = last_delivered_pck_num

\* the attempts counted are the ones send_with_retries has started
AttemptsCounted ==
    /\ attempts <= max_retries
    /\ txpc = "send" => attempts = attempt - 1
    /\ txpc = "wait" => attempts = attempt

\* a Sender that has stopped stays stopped: no attempt, no chunk, no datagram
StoppedForGood ==
    txpc = "done" =>
        /\ txpc' = "done"
        /\ attempts' = attempts
        /\ chunkIdx' = chunkIdx
        /\ transmitted' = transmitted
        /\ Len(dataChan') <= Len(dataChan)

\* C5: no chunk gets more than max_retries attempts; every attempt, sent or
\* suppressed, counts; a chunk that used all its attempts without a matching
\* OK/DUPLICATE Ack is the last one attempted. With data loss probability 1
\* the Sender makes exactly max_retries attempts on chunk 0, transmits no
\* datagram and never starts chunk 1.
C5_BoundedRetries ==
    /\ [](/\ AttemptsCounted
          /\ TxFailed =>
                /\ attempts = max_retries
                /\ chunkIdx = success_data_chunks
                /\ sent_data_chunks = success_data_chunks + 1
                /\ \A k \in transmitted : k <= chunkIdx
          /\ loss_data = 2 =>
                /\ dataChan = << >>
                /\ transmitted = {}
                /\ chunkIdx = 0
                /\ txpc = "done" => (TxFailed /\ attempts = max_retries))
    /\ [][StoppedForGood]_vars
    /\ [][attempts' \in {attempts, attempts + 1, 0}]_vars

\* with every Data packet suppressed the Sender has given up on chunk 0 after
\* the largest number of attempts
C5_Witness ==
    /\ loss_data = 2
    /\ TxFailed
    /\ max_retries = MaxRetries
    /\ attempts = MaxRetries
    /\ sent_data_chunks = 1

\* the reply to the datagram d of a wrong length
BadLengthAck(d) == << (IF Len(d) >= 1 THEN d[1] ELSE 0), STATUS_BAD_LENGTH >>

\* C6: a datagram of a length other than 32 bytes (0 bytes included), at any
\* point of the transfer, leaves the total length, bytes_written, the
\* last-delivered number, the output and the completion flag unchanged; the
\* only reply built is a BAD_LENGTH Ack with the datagram's first byte (0 if
\* it is empty), and handling it does not end the receive loop.
C6_MalformedLengthImmunity ==
    /\ [](rxpc = "recv" =>
            \A d \in DataNoise, r \in Draws :
                /\ RxUntouched(RxOutcome(d, r))
                /\ RxOutcome(d, r).ack = BadLengthAck(d)
                /\ RxOutcome(d, r).pc = "recv")
    /\ [][noise' # noise =>
            /\ UNCHANGED << last_delivered_pck_num, expected_total_len,
                            bytes_written, out_f, done, out_open, rxpc, accepted >>
            /\ \/ ackChan' = ackChan
               \/ /\ Len(ackChan') = Len(ackChan) + 1
                  /\ ackChan'[Len(ackChan')].b[2] = STATUS_BAD_LENGTH
                  /\ ackChan'[Len(ackChan')].chunk = NoChunk]_vars

\* after completion with the final Ack suppressed a datagram of a wrong
\* length was answered BAD_LENGTH and the Receiver still listens
C6_Witness ==
    /\ noise >= 1
    /\ done
    /\ rxpc = "recv"
    /\ bytes_written = input_len
    /\ \E i \in 1..Len(ackChan) :
          /\ ackChan[i].chunk = NoChunk
          /\ ackChan[i].b[2] = STATUS_BAD_LENGTH

\* C7: within one attempt the time from the start of the wait to its end as
\* a timeout never exceeds the RTT timeout, whatever Acks with another
\* number or length arrive during the wait.
C7_TimeoutClockNotReset == txpc = "wait" => waitElapsed <= RTT_TIMEOUT

\* C8: the receive loop ends only in a step where the file is complete and an
\* Ack with status OK or DUPLICATE is transmitted; while the Ack of the
\* completing packet is suppressed the Receiver stays in the loop and answers
\* a retransmission of that packet with status DUPLICATE.
C8_ReceiverTermination ==
    rxpc = "recv" =>
        \A i \in 1..Len(dataChan), r \in Draws :
            LET o == RxOutcome(dataChan[i].b, r)
            IN  /\ o.pc # "recv" =>
                      /\ o.pc = "exited"
                      /\ IsComplete(o.total, o.written)
                      /\ o.sent
                      /\ IsSuccess(o.ack[2])
                /\ (IsComplete(o.total, o.written) /\ ~o.sent) => o.pc = "recv"
                /\ (done /\ dataChan[i].chunk = NumChunks - 1) =>
                      o.ack = << dataChan[i].b[1], STATUS_DUPLICATE >>

\* the Data datagrams in flight of chunks not yet confirmed to the Sender
Outstanding == { i \in 1..Len(dataChan) : dataChan[i].chunk >= success_data_chunks }

\* C9 (as stated): at every moment at most one Data datagram is transmitted
\* and not yet acknowledged to the Sender, every copy counted.
C9_SingleDatagramInFlight == Cardinality(Outstanding) <= 1

\* C9 (amended): at every moment the Data datagrams transmitted and not yet
\* acknowledged to the Sender are copies of one packet, the current chunk's,
\* and there are at most as many as attempts made for it.
C9_SingleChunkInFlight ==
    /\ Cardinality({ k \in transmitted : k >= success_data_chunks }) <= 1
    /\ \A i \in Outstanding :
          /\ dataChan[i].chunk = chunkIdx
          /\ dataChan[i].b = pck
    /\ Cardinality(Outstanding) <= attempts

\* two copies of the unconfirmed chunk are in flight after a timeout
C9_Witness ==
    /\ Cardinality(Outstanding) = 2
    /\ attempts = 2
    /\ chunkIdx >= 1

\* the 32 bytes of chunk k of the chunks cs on the wire
PacketOf(cs, k) == make_packet(k % 2, cs[k + 1])

\* the Sender works on the chunk after the confirmed ones, and what it has
\* transmitted are the packets of the chunks up to that one
InStreamOrder ==
    LET cs == Chunks
    IN  /\ chunkIdx = success_data_chunks
        /\ txpc # "done" => (pck_num = chunkIdx % 2 /\ pck = PacketOf(cs, chunkIdx))
        /\ \A k \in transmitted : k <= chunkIdx /\ k < Len(cs)
        /\ \A i \in 1..Len(dataChan) :
              /\ dataChan[i].chunk <= chunkIdx
              /\ dataChan[i].b = PacketOf(cs, dataChan[i].chunk)

\* C10: the Sender never transmits or attempts chunk k+1 before it accepted a
\* matching Ack with status OK or DUPLICATE for chunk k; the chunks are
\* attempted in stream order, each once as a chunk, and every attempt of a
\* chunk sends the same 32 bytes.
C10_ChunkOrdering ==
    /\ []InStreamOrder
    /\ [][chunkIdx' # chunkIdx =>
            /\ chunkIdx' = chunkIdx + 1
            /\ txpc = "wait"
            /\ \E i \in 1..Len(ackChan) :
                  /\ TxOutcome(ackChan[i].b, pck_num) = "confirm"
                  /\ ackChan' = AfterDelivery(ackChan, i)]_vars
    /\ [][pck' # pck => chunkIdx' = chunkIdx + 1]_vars

\* the last chunk is attempted a second time, with the bytes of the first
\* attempt still in flight
C10_Witness ==
    /\ chunkIdx = MaxChunks - 1
    /\ txpc = "wait"
    /\ attempts = 2
    /\ \E i \in 1..Len(dataChan) :
          dataChan[i].chunk = chunkIdx /\ dataChan[i].b = pck
\* the Sender takes in this step an Ack that confirms the current packet
ConfirmStep ==
    /\ txpc = "wait"
    /\ \E i \in 1..Len(ackChan) :
          /\ TxOutcome(ackChan[i].b, pck_num) = "confirm"
          /\ ackChan' = AfterDelivery(ackChan, i)

\* C11: the Sender's sequence number is always 0 or 1, is 0 for the first
\* chunk, is the same in all attempts of a chunk and flips exactly when a
\* chunk is confirmed, so chunk k goes out with number k mod 2; a timeout, a
\* BAD_LENGTH Ack, a discarded Ack and a failure leave it as it is.
C11_SequenceNumbers ==
    /\ [](/\ pck_num \in {0, 1}
          /\ pck_num = chunkIdx % 2
          /\ txpc # "done" => pck[1] = pck_num
          /\ \A i \in 1..Len(dataChan) :
                dataChan[i].b[1] = dataChan[i].chunk % 2)
    /\ [][pck_num' # pck_num => ConfirmStep]_vars
    /\ [][success_data_chunks' # success_data_chunks
             => (ConfirmStep /\ pck_num' = 1 - pck_num)]_vars

\* chunk 1 is in its second attempt, after an attempt that a BAD_LENGTH Ack
\* or a timeout failed, with the number 1 of its first attempt
C11_Witness ==
    /\ chunkIdx = 1
    /\ pck_num = 1
    /\ attempt = 2
    /\ txpc = "wait"
    /\ noise >= 1
    /\ \E i \in 1..Len(dataChan) : dataChan[i].b[1] = 1
\* the session after the outcome o keeps bytes_written within a total length
\* that is the one known before, if one was
SessionKept(o) ==
    /\ o.written >= bytes_written
    /\ expected_total_len # None => o.total = expected_total_len
    /\ o.total # None => o.written <= o.total

\* C12: in every reachable Receiver state bytes_written is at most the total
\* expected length once that is known; bytes_written never decreases; and
\* the total expected length, once set from the first accepted packet, is
\* changed by no later datagram, new, duplicate or malformed.
C12_TransferSession ==
    /\ [](/\ bytes_written >= 0
          /\ bytes_written = Len(out_f)
          /\ expected_total_len # None =>
                (bytes_written <= expected_total_len /\ expected_total_len = input_len)
          /\ rxpc = "recv" =>
                /\ \A i \in 1..Len(dataChan), r \in Draws :
                      SessionKept(RxOutcome(dataChan[i].b, r))
                /\ \A d \in DataNoise, r \in Draws : SessionKept(RxOutcome(d, r)))
    /\ [][bytes_written' >= bytes_written]_vars
    /\ [][expected_total_len # None => expected_total_len' = expected_total_len]_vars

\* a copy of chunk 0 accepted as new a second time, after chunk 1, completed
\* the longest input: of its 31 bytes only the one still needed was written
C12_Witness ==
    /\ input_len = FIRST_DATA_LEN + DATA_BYTES + 1
    /\ accepted[0] = 2
    /\ accepted[1] = 1
    /\ done
    /\ bytes_written = expected_total_len
\* both endpoints have nothing left to do: the Sender has made its report
\* (it reads no Ack any more) and no Data datagram is on its way
RunEnded == txpc = "done" /\ dataChan = << >>

\* With both loss probabilities 0 every decision is "deliver" whatever the
\* seed, and with one attempt per chunk the channels never hold two
\* datagrams: the runs of such a configuration differ in timing only. One of
\* them confirms every chunk and ends with the input as output.
TimingOnly == ordered /\ loss_data = 0 /\ loss_ack = 0 /\ max_retries = 1

\* C13: for a fixed seed, loss probabilities and delays, any two runs over
\* the same input, which can differ only in the relative timing of the two
\* endpoints, make the same decisions on the same attempts and Acks and end
\* with the same Receiver output: so every run of a configuration that has a
\* run confirming all chunks with the input as output ends that way.
C13_Determinism ==
    (TimingOnly /\ RunEnded) =>
        /\ sent_data_chunks = NumChunks
        /\ out_f = data_r
\* the smallest number of b's that make a
CeilDiv(a, b) == (a + b - 1) \div b

\* the number of chunks of a stream of n bytes
ExpectedCount(n) ==
    IF n <= FIRST_DATA_LEN THEN 1 ELSE 1 + CeilDiv(n - FIRST_DATA_LEN, DATA_BYTES)

\* the stream offset at which chunk k begins
OffsetOf(k) == IF k = 0 THEN 0 ELSE FIRST_DATA_LEN + DATA_BYTES * (k - 1)

\* the number of stream bytes chunk k carries
CarriedBy(k) ==
    IF k = 0 THEN Min(FIRST_DATA_LEN, input_len)
    ELSE Min(DATA_BYTES, input_len - OffsetOf(k))

\* byte j (from 1) of the little-endian 32-bit n
LEByte(n, j) ==
    IF j = 1 THEN n % 256
    ELSE IF j = 2 THEN (n \div 256) % 256
    ELSE IF j = 3 THEN (n \div 65536) % 256
    ELSE (n \div 16777216) % 256

\* chunk k of the input, byte by byte
ExpectedChunk(k) ==
    [ j \in 1..DATA_BYTES |->
        IF k = 0
        THEN IF j <= LEN_FIELD THEN LEByte(input_len, j)
             ELSE IF j - LEN_FIELD <= CarriedBy(0) THEN data_r[j - LEN_FIELD]
             ELSE 0
        ELSE IF j <= CarriedBy(k) THEN data_r[OffsetOf(k) + j]
             ELSE 0 ]

\* C14: for every stream of N >= 0 bytes the chunk producer yields 1 chunk if
\* N <= 27 and 1 + ceil((N - 27) / 31) chunks otherwise, each of 31 bytes;
\* chunk 0 is the 4-byte little-endian N, the first min(27, N) stream bytes
\* and zero padding; chunk k > 0 is the stream bytes from offset
\* 27 + 31 * (k - 1), up to 31 of them, and zero padding. N = 50 gives 2
\* chunks carrying 27 and 23 bytes, N = 0 one chunk with length field 0.
C14_ChunkProducer ==
    LET cs == Chunks
    IN  /\ Len(cs) = ExpectedCount(input_len)
        /\ \A k \in 0..(Len(cs) - 1) :
              /\ Len(cs[k + 1]) = DATA_BYTES
              /\ cs[k + 1] = ExpectedChunk(k)
              /\ CarriedBy(k) >= (IF input_len = 0 THEN 0 ELSE 1)
        /\ txpc # "done" => pck = << chunkIdx % 2 >> \o ExpectedChunk(chunkIdx)
        /\ input_len = 50 =>
              (Len(cs) = 2 /\ CarriedBy(0) = 27 /\ CarriedBy(1) = 23)
        /\ input_len = 0 =>
              (Len(cs) = 1 /\ cs[1] = [j \in 1..DATA_BYTES |-> 0])

\* the second, last chunk of a stream of 50 bytes is on its way
C14_Witness ==
    /\ input_len = 50
    /\ chunkIdx = 1
    /\ NumChunks = 2
    /\ \E i \in 1..Len(dataChan) :
          /\ dataChan[i].chunk = 1
          /\ dataChan[i].b = << 1 >> \o ExpectedChunk(1)
          /\ dataChan[i].b[24] = 49
          /\ dataChan[i].b[25] = 0
\* C15: at every point of a Sender run, chunks confirmed <= chunks sent <=
\* chunks confirmed + 1; when the Sender stops after success, chunks sent =
\* chunks confirmed = the number of chunks of the input; when it stops
\* because chunk k used up its retries, chunks sent = k + 1 and chunks
\* confirmed = k.
C15_ReportCounts ==
    /\ success_data_chunks <= sent_data_chunks
    /\ sent_data_chunks <= success_data_chunks + 1
    /\ sent_data_chunks <= NumChunks
    /\ txpc # "done" => sent_data_chunks = chunkIdx
    /\ TxSucceeded =>
          (sent_data_chunks = NumChunks /\ success_data_chunks = NumChunks)
    /\ TxFailed =>
          /\ ~HasAttempt(attempt)
          /\ sent_data_chunks = chunkIdx + 1
          /\ success_data_chunks = chunkIdx

\* the Sender stopped on chunk 1 of 3: 2 chunks sent, 1 confirmed
C15_Witness ==
    /\ TxFailed
    /\ NumChunks = 3
    /\ chunkIdx = 1
    /\ sent_data_chunks = 2
    /\ success_data_chunks = 1
\* the Sender takes an Ack off its socket in this step (on a channel that
\* keeps the order, the one up to which the queue is cut)
TakesAck == txpc = "wait" /\ Len(ackChan') < Len(ackChan)

TakenAck == ackChan[Len(ackChan) - Len(ackChan')].b

\* the Ack b echoes the number of the current packet
EchoesCurrent(b) == Len(b) = ACK_LEN /\ b[1] = pck_num

\* the chunk's delivery ends as a success in this step
DeliverySucceeds ==
    /\ success_data_chunks' = success_data_chunks + 1
    /\ chunkIdx' = chunkIdx + 1
    /\ pck_num' = 1 - pck_num

\* exactly one attempt fails in this step, and the same packet with the same
\* number is up for the next attempt, made if attempts remain
OneAttemptFails ==
    /\ attempt' = attempt + 1
    /\ txpc' = "send"
    /\ UNCHANGED << pck, pck_num, chunkIdx, sent_data_chunks, success_data_chunks >>

\* C16: an Ack that echoes the current packet's number ends the chunk's
\* delivery as a success if and only if its status is OK or DUPLICATE; a
\* matching Ack with status BAD_LENGTH or any other status, and a timeout,
\* each fail exactly one attempt and are followed by a retry of the same
\* packet with the same number while attempts remain.
C16_AttemptResolution ==
    /\ [](\A st \in 0..255 :
            TxOutcome(<< pck_num, st >>, pck_num) =
                IF st \in {STATUS_OK, STATUS_DUPLICATE} THEN "confirm" ELSE "retry")
    /\ []((txpc = "send" /\ attempt <= max_retries)
            => ENABLED (\E r \in Draws : TxAttempt(r)))
    /\ [][TakesAck /\ EchoesCurrent(TakenAck)
             => IF TakenAck[2] \in {STATUS_OK, STATUS_DUPLICATE}
                THEN DeliverySucceeds
                ELSE OneAttemptFails /\ ~DeliverySucceeds]_vars
    /\ [][success_data_chunks' # success_data_chunks
             => /\ TakesAck
                /\ EchoesCurrent(TakenAck)
                /\ TakenAck[2] \in {STATUS_OK, STATUS_DUPLICATE}]_vars
    /\ [][(txpc = "wait" /\ txpc' = "send" /\ ~TakesAck /\ noise' = noise)
             => (recvElapsed = RTT_TIMEOUT /\ OneAttemptFails)]_vars
\* the first of two attempts of chunk 1 is under way and an Ack with its
\* number and status BAD_LENGTH is about to fail it
C16_Witness ==
    /\ txpc = "wait"
    /\ chunkIdx = 1
    /\ attempt = 1
    /\ max_retries = 2
    /\ Len(ackChan) >= 1
    /\ EchoesCurrent(ackChan[1].b)
    /\ ackChan[1].b[2] = STATUS_BAD_LENGTH
\* the Sender is where it was: same wait, same attempt, same packet
SenderStays ==
    /\ txpc' = "wait"
    /\ UNCHANGED << attempt, attempts, pck_num, pck, chunkIdx, sent_data_chunks,
                    success_data_chunks, dataChan, transmitted >>

\* C17: when the waiting Sender receives an Ack whose length is not 2 bytes
\* or whose echoed number differs from the packet just sent, the attempt
\* index, the sequence number, the chunk and both counters are unchanged, no
\* Data is transmitted and the Sender stays in the same wait.
C17_DiscardedAcks ==
    /\ [](txpc = "wait" =>
            /\ \A d \in AckNoise : TxOutcome(d, pck_num) = "discard"
            /\ \A st \in 0..2 : TxOutcome(<< 1 - pck_num, st >>, pck_num) = "discard")
    /\ [][(TakesAck /\ ~EchoesCurrent(TakenAck)) => SenderStays]_vars
    /\ [][(txpc = "wait" /\ noise' # noise) => SenderStays]_vars

\* the Sender still waits after it discarded a datagram (the time waited is
\* more than the time since the last recvfrom call began), and an Ack with
\* the other number is yet to come
C17_Witness ==
    /\ txpc = "wait"
    /\ waitElapsed > recvElapsed
    /\ noise = 1
    /\ \E i \in 1..Len(ackChan) :
          Len(ackChan[i].b) = ACK_LEN /\ ackChan[i].b[1] # pck_num
\* C18: for every input of C chunks and every pattern of losses, delays and
\* inbound Acks, a continuing stream of non-matching Acks included, the
\* Sender makes at most C * max_retries attempts in total and eventually
\* reaches its final report; it never waits forever inside one attempt.
C18_SenderTermination ==
    /\ [](chunkIdx * max_retries + attempts <= NumChunks * max_retries)
    /\ <>(txpc = "done")
\* both loss probabilities are 0
LossFree == loss_data = 0 /\ loss_ack = 0

\* both endpoints have terminated, the Sender with every chunk confirmed and
\* the Receiver with the input written
BothTerminated ==
    /\ TxSucceeded
    /\ rxpc = "exited"
    /\ bytes_written = input_len
    /\ out_f = data_r

\* C19: when both loss probabilities are 0 and every Ack delay is shorter
\* than the Sender's timeout, every chunk is confirmed on its first attempt
\* by an Ack with status OK, with no timeout, no DUPLICATE and no retry; the
\* Receiver's bytes_written ends equal to N with the output equal to the
\* input; and both endpoints terminate.
C19_LossFreeProgress ==
    /\ [](LossFree =>
            /\ attempt = 1
            /\ attempts <= 1
            /\ waitElapsed = 0
            /\ ~TxFailed
            /\ \A k \in 0..(MaxChunks - 1) : accepted[k] <= 1
            /\ \A i \in 1..Len(ackChan) :
                  /\ ackChan[i].b = << pck_num, STATUS_OK >>
                  /\ ackChan[i].chunk = chunkIdx
            /\ Len(dataChan) + Len(ackChan) <= 1
            /\ txpc = "done" => BothTerminated)
    /\ <>(LossFree => BothTerminated)

\* the scenario of 50 bytes without loss: 2 chunks confirmed, 50 bytes
\* written, both endpoints at their end
C19_Witness ==
    /\ LossFree
    /\ input_len = 50
    /\ BothTerminated
    /\ success_data_chunks = 2
    /\ sent_data_chunks = 2
    /\ bytes_written = 50
    /\ accepted[0] = 1 /\ accepted[1] = 1
\* the Receiver has written the complete file
FileWritten == expected_total_len # None /\ bytes_written >= expected_total_len

\* the endpoints disagree: the Sender has reported failure on the last
\* chunk, the Receiver has the complete file
Disagreement ==
    /\ TxFailed
    /\ chunkIdx = NumChunks - 1
    /\ FileWritten

\* C20: there is a run in which the Receiver has written the complete file
\* while the Sender exhausts its retries on the last chunk and reports
\* failure, and no later step of either endpoint changes either verdict: the
\* Sender never sends again after aborting, the Receiver never undoes
\* completion.
C20_Disagreement ==
    /\ [](FileWritten => (done /\ ~out_open))
    /\ [][Disagreement =>
            /\ Disagreement'
            /\ done'
            /\ UNCHANGED << out_f, bytes_written, expected_total_len >>
            /\ UNCHANGED << txpc, sent_data_chunks, success_data_chunks,
                            attempts, transmitted >>
            /\ Len(dataChan') <= Len(dataChan)]_vars

\* the run: every Ack of the last chunk was suppressed, the Sender gave up
\* on it after the Receiver had completed the file, and a copy of the last
\* packet has since been answered to no effect
C20_Witness ==
    /\ Disagreement
    /\ NumChunks = MaxChunks
    /\ sent_data_chunks = NumChunks
    /\ success_data_chunks = NumChunks - 1
    /\ done
    /\ rxpc = "recv"
    /\ out_f = data_r
    /\ dataChan = << >>
\* the sequence p is the beginning of the sequence s
IsPrefix(p, s) ==
    /\ Len(p) <= Len(s)
    /\ \A i \in 1..Len(p) : p[i] = s[i]

\* C21: in every reachable state of a run over channels that may lose
\* messages but deliver each direction in order, the bytes the Receiver has
\* written so far are a prefix of the input stream: no byte out of place, no
\* padding byte and no byte of the length field written as data.
C21_PrefixInvariant ==
    ordered =>
        /\ IsPrefix(out_f, data_r)
        /\ Len(out_f) = bytes_written
        /\ bytes_written \in
              {0} \cup { Min(input_len, OffsetOf(k + 1)) : k \in 0..(NumChunks - 1) }

\* mid-transfer on in-order channels: the first two chunks of the longest
\* input are written, all but its last byte, and the Sender has resent
\* chunk 1
C21_Witness ==
    /\ ordered
    /\ NumChunks = MaxChunks
    /\ ~done
    /\ bytes_written = OffsetOf(2)
    /\ bytes_written = input_len - 1
    /\ attempts = 2
    /\ \E i \in 1..Len(dataChan) : dataChan[i].chunk = 1
RECURSIVE SumUpTo(_, _)
\* f[0] + ... + f[k]
SumUpTo(f, k) == IF k < 0 THEN 0 ELSE f[k] + SumUpTo(f, k - 1)

\* the number of packets the Receiver has accepted as new
AcceptedAsNew == SumUpTo(accepted, MaxChunks - 1)

\* C22: in every reachable state of a run over channels that may lose
\* messages but deliver each direction in order, the number of packets the
\* Receiver has accepted as new equals the number of chunks the Sender has
\* confirmed or exceeds it by exactly one; the Sender is never ahead.
C22_LockStep ==
    ordered =>
        /\ AcceptedAsNew \in {success_data_chunks, success_data_chunks + 1}
        /\ \A k \in 0..(MaxChunks - 1) :
              accepted[k] = (IF k < AcceptedAsNew THEN 1 ELSE 0)

\* both positions: the Receiver has accepted chunk 1 that the Sender, in its
\* second attempt, has not yet confirmed
C22_Witness ==
    /\ ordered
    /\ success_data_chunks = 1
    /\ AcceptedAsNew = 2
    /\ txpc = "wait"
    /\ attempt = 2
\* C23: for every N >= 0, when the Receiver accepts the chunk producer's
\* chunks in order, bytes_written >= total_length first becomes true exactly
\* on the final chunk the producer yields: no earlier chunk completes the
\* transfer and the final chunk always does.
C23_CompletionOnLastChunk ==
    /\ AcceptedAsNew <= NumChunks
    /\ \A k \in 0..(MaxChunks - 1) :
          accepted[k] = (IF k < AcceptedAsNew THEN 1 ELSE 0)
    /\ FileWritten <=> AcceptedAsNew = NumChunks
    /\ done <=> AcceptedAsNew = NumChunks
    /\ AcceptedAsNew >= 1 =>
          bytes_written = Min(input_len, OffsetOf(AcceptedAsNew))
    /\ \A k \in 1..(NumChunks - 1) : OffsetOf(k) < input_len
    /\ OffsetOf(NumChunks) >= input_len

\* a stream that fills its two chunks to the last byte is complete with the
\* second
C23_Witness ==
    /\ input_len = FIRST_DATA_LEN + DATA_BYTES
    /\ NumChunks = 2
    /\ AcceptedAsNew = 2
    /\ done
    /\ bytes_written = input_len
\* the Receiver has completed and closed the output and still listens
ListeningAfterCompletion == rxpc = "recv" /\ done /\ ~out_open

\* C24: once the Receiver has completed and closed the output but still
\* listens, its completing Ack having been suppressed, every later 32-byte
\* datagram, whatever its sequence number, is answered with an Ack and
\* causes no write attempt on the closed output and no abnormal termination
\* of the Receiver.
C24_SafeAfterCompletion ==
    /\ rxpc # "crashed"
    /\ ListeningAfterCompletion =>
          \A i \in 1..Len(dataChan), r \in Draws :
              LET o == RxOutcome(dataChan[i].b, r)
              IN  /\ o.kind # "crash"
                  /\ Len(o.ack) = ACK_LEN
                  /\ o.ack[1] = dataChan[i].b[1]
                  /\ o.out = out_f
\* C25: over channels that may lose messages but deliver each direction in
\* order, whenever the Sender ends with every chunk confirmed, the Receiver
\* has already completed the output and left its receive loop: it is never
\* left blocked waiting for a datagram after a successful transfer.
C25_SuccessImpliesReceiverExit ==
    (ordered /\ TxSucceeded) =>
        /\ rxpc = "exited"
        /\ done
        /\ ~out_open
        /\ FileWritten

\* a successful transfer of the longest input whose last chunk was sent
\* twice: the Receiver is out of its loop, the second copy stays unread
C25_Witness ==
    /\ ordered
    /\ TxSucceeded
    /\ NumChunks = MaxChunks
    /\ rxpc = "exited"
    /\ \E i \in 1..Len(dataChan) : dataChan[i].chunk = NumChunks - 1
====
